---- MODULE Spec2Model ----
(***************************************************************************)
(* Model of the feature-extraction pipeline of the phishing detector:      *)
(* utils/feature_extractor.py (class FeatureExtractor) and the analyze     *)
(* endpoint of app.py that drives it.                                      *)
(*                                                                         *)
(* Python strings are modelled as sequences of one-character strings, so   *)
(* that startswith, slicing, substring search, split and urlparse are      *)
(* computed character by character as the code computes them.              *)
(***************************************************************************)
EXTENDS Integers, Sequences, FiniteSets, TLC

VARIABLES
    caller,        \* who drives the extractor: "analyze" (app.py) or "client" (direct use of the class)
    raw,           \* the raw url string handed to FeatureExtractor(url)
    url,           \* self.url
    parsed_url,    \* self.parsed_url
    domain,        \* self.domain
    html_content,  \* self.html_content
    soup,          \* self.soup
    response,      \* self.response
    features,      \* self.features (a dict: a function on the keys present)
    pc,            \* position: "idle" (between calls) or "fetching" (inside fetch_website)
    fetch,         \* the frame of the running fetch_website call
    reqs,          \* the HEAD and GET requests of the last fetch_website call, in order
    fetched,       \* how the last fetch_website call ended: "none", "true", "false", "raised"
    lookups,       \* external lookups of the last _perform_additional_lookups, in order
    ran,           \* derivers entered by the last extract_all_features, in order
    raised,        \* exception that left the last extract_all_features ("none" when it returned)
    vector,        \* the last list returned by get_feature_vector
    vecOf,         \* self.features at the time of that call
    calls,         \* number of method calls the client has made
    result         \* analyze's HTTP reply: "none", "ok200", "err400", "err500"

vars == <<caller, raw, url, parsed_url, domain, html_content, soup, response,
          features, pc, fetch, reqs, fetched, lookups, ran, raised, vector,
          vecOf, calls, result>>

(***************************************************************************)
(* Bounds of the model.                                                    *)
(***************************************************************************)
\* largest max_retries a direct client passes to fetch_website (analyze
\* always runs it with the default, DefaultMaxRetries)
MaxClientRetries == 0
\* number of method calls a direct client makes on one extractor
MaxCalls == 3

\* fetch_website(self, max_retries=2)
DefaultMaxRetries == 2

(***************************************************************************)
(* Strings.                                                                *)
(***************************************************************************)
None == [tag |-> "None"]

\* s.startswith(p)
StartsWith(s, p) ==
    /\ Len(p) <= Len(s)
    /\ \A i \in 1..Len(p) : s[i] = p[i]

\* s[n:]
SliceFrom(s, n) == IF n >= Len(s) THEN <<>> ELSE SubSeq(s, n + 1, Len(s))

\* s[:n]
SliceTo(s, n) == IF n >= Len(s) THEN s ELSE SubSeq(s, 1, n)

\* p in s  (substring test)
Contains(s, p) ==
    \E i \in 0..(Len(s) - Len(p)) : \A j \in 1..Len(p) : s[i + j] = p[j]

\* s.find(c) for a one-character c, 0-based; Len(s) when absent
FindChar(s, cs) ==
    IF \E i \in 1..Len(s) : s[i] \in cs
    THEN (CHOOSE i \in 1..Len(s) : s[i] \in cs /\ \A j \in 1..(i - 1) : s[j] \notin cs) - 1
    ELSE Len(s)

\* s.rfind(c), 0-based; -1 when absent
RFindChar(s, c) ==
    IF \E i \in 1..Len(s) : s[i] = c
    THEN (CHOOSE i \in 1..Len(s) : s[i] = c /\ \A j \in (i + 1)..Len(s) : s[j] # c) - 1
    ELSE -1

\* number of occurrences of the character c in s
RECURSIVE CountChar(_, _)
CountChar(s, c) ==
    IF s = <<>> THEN 0
    ELSE (IF Head(s) = c THEN 1 ELSE 0) + CountChar(Tail(s), c)

\* len(s.split(c)) for a one-character separator
SplitLen(s, c) == CountChar(s, c) + 1

Digits == {"0", "1", "2", "3", "4", "5", "6", "7", "8", "9"}

DigitVal(c) ==
    CASE c = "0" -> 0 [] c = "1" -> 1 [] c = "2" -> 2 [] c = "3" -> 3
      [] c = "4" -> 4 [] c = "5" -> 5 [] c = "6" -> 6 [] c = "7" -> 7
      [] c = "8" -> 8 [] c = "9" -> 9

\* s.isdigit()
IsDigits(s) == s # <<>> /\ \A i \in 1..Len(s) : s[i] \in Digits

\* int(s) for a string of digits
RECURSIVE ToInt(_)
ToInt(s) ==
    IF s = <<>> THEN 0
    ELSE 10 * ToInt(SubSeq(s, 1, Len(s) - 1)) + DigitVal(s[Len(s)])

HttpPrefix == <<"h", "t", "t", "p", ":", "/", "/">>
HttpsPrefix == <<"h", "t", "t", "p", "s", ":", "/", "/">>

\* normalize_url testing for 'http://' alone
NormalizeUrlHttpOnly(u) ==
    IF ~StartsWith(u, HttpPrefix)
    THEN HttpPrefix \o u
    ELSE u

\* FeatureExtractor.normalize_url
NormalizeUrl(u) ==
    IF ~(StartsWith(u, HttpPrefix) \/ StartsWith(u, HttpsPrefix))
    THEN HttpPrefix \o u
    ELSE u

(***************************************************************************)
(* urlparse, for the URLs normalize_url produces: the scheme is the text   *)
(* before the first ':', the netloc runs from after '//' to the first of   *)
(* '/', '?', '#', the fragment is cut at the first '#', the query at the   *)
(* first '?'.                                                              *)
(***************************************************************************)
UrlParse(u) ==
    LET colon   == FindChar(u, {":"})
        scheme  == SliceTo(u, colon)
        rest    == SliceFrom(u, colon + 1)
        hasNet  == StartsWith(rest, <<"/", "/">>)
        afterSl == IF hasNet THEN SliceFrom(rest, 2) ELSE rest
        netEnd  == IF hasNet THEN FindChar(afterSl, {"/", "?", "#"}) ELSE 0
        netloc  == SliceTo(afterSl, netEnd)
        rest2   == SliceFrom(afterSl, netEnd)
        hashAt  == FindChar(rest2, {"#"})
        noFrag  == SliceTo(rest2, hashAt)
        fragment == SliceFrom(rest2, hashAt + 1)
        qAt     == FindChar(noFrag, {"?"})
    IN  [scheme   |-> scheme,
         netloc   |-> netloc,
         path     |-> SliceTo(noFrag, qAt),
         query    |-> SliceFrom(noFrag, qAt + 1),
         fragment |-> fragment]

\* ParseResult._hostinfo[1]: the text after the first ':' of the part of the
\* netloc that follows the last '@'; None when empty
PortText(netloc) ==
    LET at       == RFindChar(netloc, "@")
        hostinfo == SliceFrom(netloc, at + 1)
        colon    == FindChar(hostinfo, {":"})
        port     == SliceFrom(hostinfo, colon + 1)
    IN  IF port = <<>> THEN None ELSE [tag |-> "str", s |-> port]

\* ParseResult.port raises ValueError when the port text is not a decimal
\* number or is out of range
PortRaises(netloc) ==
    LET p == PortText(netloc)
    IN  /\ p # None
        /\ \/ ~IsDigits(p.s)
           \/ ToInt(p.s) > 65535

\* ParseResult.port when it does not raise: None or an int
PortValue(netloc) ==
    LET p == PortText(netloc)
    IN  IF p = None THEN None ELSE [tag |-> "int", n |-> ToInt(p.s)]

(***************************************************************************)
(* The dict self.features.                                                 *)
(***************************************************************************)
EmptyDict == [k \in {} |-> 0]

\* d[k] = v
Put(d, k, v) == [x \in DOMAIN d \cup {k} |-> IF x = k THEN v ELSE d[x]]

\* d.update(e)
Update(d, e) == [x \in DOMAIN d \cup DOMAIN e |-> IF x \in DOMAIN e THEN e[x] ELSE d[x]]

\* d.get(k, dflt)
Get(d, k, dflt) == IF k \in DOMAIN d THEN d[k] ELSE dflt

(***************************************************************************)
(* _extract_url_features.                                                  *)
(***************************************************************************)
\* re.match(r'^\d+\.\d+\.\d+\.\d+$', s): four non-empty runs of digits
\* separated by three dots
IsDottedQuad(s) ==
    /\ s # <<>>
    /\ \A i \in 1..Len(s) : s[i] \in Digits \cup {"."}
    /\ CountChar(s, ".") = 3
    /\ s[1] # "." /\ s[Len(s)] # "."
    /\ \A i \in 1..(Len(s) - 1) : ~(s[i] = "." /\ s[i + 1] = ".")

shorteners ==
    << <<"b", "i", "t", ".", "l", "y">>,
       <<"t", "i", "n", "y", "u", "r", "l", ".", "c", "o", "m">>,
       <<"g", "o", "o", ".", "g", "l">>,
       <<"t", ".", "c", "o">>,
       <<"o", "w", ".", "l", "y">>,
       <<"i", "s", ".", "g", "d">>,
       <<"b", "u", "f", "f", ".", "l", "y">>,
       <<"b", "i", "t", ".", "d", "o">>,
       <<"m", "c", "a", "f", ".", "e", "e">>,
       <<"r", "e", "b", "r", "a", "n", "d", ".", "l", "y">> >>

HttpsScheme == <<"h", "t", "t", "p", "s">>
HttpScheme == <<"h", "t", "t", "p">>

\* the assignments of _extract_url_features that precede the read of
\* self.parsed_url.port (lines 122-137)
UrlFeaturesBeforePort(f, u, p, d) ==
    LET f1 == Put(f, "url_length", Len(u))
        f2 == Put(f1, "having_ip_address", IF IsDottedQuad(p.netloc) THEN -1 ELSE 1)
        f3 == Put(f2, "shortining_service",
                  IF \E i \in 1..Len(shorteners) : Contains(u, shorteners[i]) THEN 1 ELSE -1)
        f4 == Put(f3, "having_at_symbol", IF Contains(u, <<"@">>) THEN 1 ELSE -1)
        f5 == Put(f4, "double_slash_redirecting",
                  IF Contains(SliceFrom(u, 7), <<"/", "/">>) THEN 1 ELSE -1)
        f6 == Put(f5, "prefix_suffix", IF Contains(d, <<"-">>) THEN 1 ELSE -1)
        n  == SplitLen(d, ".")
    IN  Put(f6, "having_sub_domain", IF n > 2 THEN n - 2 ELSE -1)

\* 1 if self.parsed_url.port else -1  (None and 0 are falsy)
PortFeature(netloc) ==
    LET pv == PortValue(netloc)
    IN  IF pv # None /\ pv.n # 0 THEN 1 ELSE -1

\* 1 if self.parsed_url.scheme == 'https' else -1
HttpsToken(p) == IF p.scheme = HttpsScheme THEN 1 ELSE -1

\* _extract_url_features: [raised, features]; the ValueError of
\* parsed_url.port leaves the keys assigned before it
ExtractUrlFeatures(f, u, p, d) ==
    LET g == UrlFeaturesBeforePort(f, u, p, d)
    IN  IF PortRaises(p.netloc)
        THEN [raised |-> "ValueError", features |-> g]
        ELSE [raised |-> "none",
              features |-> Put(Put(g, "port", PortFeature(p.netloc)),
                               "https_token", HttpsToken(p))]

(***************************************************************************)
(* _extract_html_features.  A parsed document is a record of what the      *)
(* deriver queries: its <form> elements (each: does its markup contain     *)
(* 'mailto:'), whether an <iframe> exists, the inline script text (does it *)
(* contain 'window.open', 'event.button==2'), whether the serialized       *)
(* document contains 'onmouseover=', the <a href> elements (each: does     *)
(* the href contain 'http'), and whether a <link rel="icon"> exists.       *)
(***************************************************************************)
Doc(forms, iframe, winopen, button2, mouseover, anchors, favicon) ==
    [tag |-> "doc", forms |-> forms, iframe |-> iframe, winopen |-> winopen,
     button2 |-> button2, mouseover |-> mouseover, anchors |-> anchors,
     favicon |-> favicon]

Docs ==
    { Doc(<<>>, FALSE, FALSE, FALSE, FALSE, <<>>, FALSE),
      Doc(<<FALSE>>, FALSE, FALSE, FALSE, FALSE, <<FALSE>>, TRUE),
      Doc(<<FALSE, TRUE>>, TRUE, TRUE, TRUE, TRUE, <<FALSE, TRUE>>, FALSE) }

\* BeautifulSoup(html, 'html.parser')
ParseHtml(html) == html

ExtractHtmlFeatures(f, s) ==
    LET f1 == Put(f, "sfh", IF Len(s.forms) > 0 THEN 1 ELSE -1)
        f2 == Put(f1, "submitting_to_email",
                  IF \E i \in 1..Len(s.forms) : s.forms[i] THEN 1 ELSE -1)
        f3 == Put(f2, "iframe", IF s.iframe THEN 1 ELSE -1)
        f4 == Put(f3, "popupwindow", IF s.winopen THEN 1 ELSE -1)
        f5 == Put(f4, "on_mouseover", IF s.mouseover THEN 1 ELSE -1)
        f6 == Put(f5, "rightclick", IF s.button2 THEN 1 ELSE -1)
        f7 == Put(f6, "url_of_anchor",
                  IF \E i \in 1..Len(s.anchors) : s.anchors[i] THEN 1 ELSE -1)
        f8 == Put(f7, "links_in_tags", Len(s.anchors))
    IN  Put(f8, "favicon", IF s.favicon THEN 1 ELSE -1)

(***************************************************************************)
(* _perform_additional_lookups.                                            *)
(*                                                                         *)
(* A WHOIS outcome is either the lookup raising or a record with           *)
(*   creation_date: None, a datetime (given by its age in days), a list of *)
(*     datetimes, a value that is no datetime (a str), or a list whose     *)
(*     items do not compare, on which min() raises TypeError;              *)
(*   name_servers: "missing" (no attribute), "empty" or "some".            *)
(* A TLS outcome is "ok" or "fail" (create_connection or wrap_socket       *)
(* raising).                                                               *)
(***************************************************************************)
\* the threshold of "domain_age > 365"
AgeThreshold == 365

CreationDates ==
    { None,
      [tag |-> "datetime", age |-> AgeThreshold],
      [tag |-> "datetime", age |-> AgeThreshold + 1],
      [tag |-> "list", ages |-> <<10, AgeThreshold + 1>>],
      [tag |-> "str"],
      [tag |-> "mixedlist"] }

WhoisOutcomes ==
    { [kind |-> "raises"] } \cup
    { [kind |-> "record", creation_date |-> c, name_servers |-> n] :
        c \in CreationDates, n \in {"missing", "empty", "some"} }

TlsOutcomes == {"ok", "fail"}

\* the largest element of a non-empty sequence of ages: min() of the dates
MaxAge(ages) == CHOOSE a \in {ages[i] : i \in 1..Len(ages)} :
                    \A i \in 1..Len(ages) : ages[i] <= a

\* the defaults of lines 163-175
LookupDefaults ==
    [k \in {"age_of_domain", "domain_registration_length", "dnsrecord",
            "sslfinal_state", "redirect", "web_traffic", "page_rank",
            "google_index", "links_pointing_to_page", "statistical_report",
            "abnormal_url"} |-> 0]

\* lines 179-184: the creation-date block; [raised, features]
CreationDateBlock(f, c) ==
    CASE c.tag = "None" -> [raised |-> FALSE, features |-> f]
      [] c.tag = "mixedlist" -> [raised |-> TRUE, features |-> f]
      [] c.tag = "str" -> [raised |-> FALSE, features |-> f]
      [] c.tag \in {"datetime", "list"} ->
            LET domain_age == IF c.tag = "list" THEN MaxAge(c.ages) ELSE c.age
            IN  [raised |-> FALSE,
                 features |-> Put(Put(f, "age_of_domain",
                                      IF domain_age > AgeThreshold THEN 1 ELSE -1),
                                  "domain_registration_length", 1)]

\* line 186
DnsRecord(w) == IF w.name_servers = "some" THEN 1 ELSE -1

\* the first try block with the handshake in a try block of its own, as in
\* app.py lines 139-145: a WHOIS failure leaves sslfinal_state alone and
\* the handshake is attempted all the same
WhoisTlsBlockUncoupled(f, w, t) ==
    LET g == IF w.kind = "raises" \/ CreationDateBlock(f, w.creation_date).raised
             THEN f
             ELSE Put(CreationDateBlock(f, w.creation_date).features, "dnsrecord",
                      DnsRecord(w))
    IN  [features |-> Put(g, "sslfinal_state", IF t = "ok" THEN 1 ELSE -1),
         lookups |-> <<IF w.kind = "raises" THEN "whois:raised" ELSE "whois:returned",
                       "tls">>]

\* WhoisTlsBlock with "except: pass" for line 194: an exception in the try
\* block leaves sslfinal_state at its default
WhoisTlsBlockSilentExcept(f, w, t) ==
    IF w.kind = "raises"
    THEN [features |-> f, lookups |-> <<"whois:raised">>]
    ELSE LET cd == CreationDateBlock(f, w.creation_date)
         IN  IF cd.raised
             THEN [features |-> cd.features, lookups |-> <<"whois:returned">>]
             ELSE LET g == Put(cd.features, "dnsrecord", DnsRecord(w))
                  IN  [features |-> IF t = "ok" THEN Put(g, "sslfinal_state", 1) ELSE g,
                       lookups |-> <<"whois:returned", "tls">>]

\* lines 177-194: the first try block; [features, lookups], the lookups
\* made being "whois:raised" or "whois:returned", then "tls" if attempted
WhoisTlsBlock(f, w, t) ==
    IF w.kind = "raises"
    THEN [features |-> Put(f, "sslfinal_state", -1), lookups |-> <<"whois:raised">>]
    ELSE LET cd == CreationDateBlock(f, w.creation_date)
         IN  IF cd.raised
             THEN [features |-> Put(cd.features, "sslfinal_state", -1),
                   lookups |-> <<"whois:returned">>]
             ELSE LET g == Put(cd.features, "dnsrecord", DnsRecord(w))
                  IN  [features |-> Put(g, "sslfinal_state", IF t = "ok" THEN 1 ELSE -1),
                       lookups |-> <<"whois:returned", "tls">>]

\* lines 196-200: the redirect check
RedirectBlock(f, resp) ==
    IF resp # None
    THEN Put(f, "redirect", IF resp.history > 0 THEN 1 ELSE -1)
    ELSE f

\* _perform_additional_lookups; [features, lookups]
PerformAdditionalLookups(f, w, t, resp) ==
    LET b == WhoisTlsBlock(Update(f, LookupDefaults), w, t)
    IN  [features |-> RedirectBlock(b.features, resp),
         lookups |-> b.lookups \o <<"redirect">>]

(***************************************************************************)
(* extract_all_features.                                                   *)
(***************************************************************************)
\* lines 112-115, before any lookup: [raised, features, ran]
ExtractLocalFeatures(f, u, p, d, s) ==
    LET lex == ExtractUrlFeatures(f, u, p, d)
    IN  IF lex.raised # "none"
        THEN [raised |-> lex.raised, features |-> lex.features, ran |-> <<"lexical">>]
        ELSE IF s # None
        THEN [raised |-> "none", features |-> ExtractHtmlFeatures(lex.features, s),
              ran |-> <<"lexical", "structural">>]
        ELSE [raised |-> "none", features |-> lex.features, ran |-> <<"lexical">>]

\* extract_all_features returning early, before the lookups, when there is
\* no structural feature
ExtractAllFeaturesNeedsHtml(loc, resp, w, t) ==
    IF loc.raised # "none" \/ loc.ran = <<"lexical">>
    THEN [raised |-> loc.raised, features |-> loc.features, ran |-> loc.ran,
          lookups |-> <<>>]
    ELSE LET net == PerformAdditionalLookups(loc.features, w, t, resp)
         IN  [raised |-> "none", features |-> net.features,
              ran |-> loc.ran \o <<"network">>, lookups |-> net.lookups]

\* lines 117-119 after them, under WHOIS outcome w and TLS outcome t:
\* [raised, features, ran, lookups]
ExtractAllFeatures(loc, resp, w, t) ==
    IF loc.raised # "none"
    THEN [raised |-> loc.raised, features |-> loc.features, ran |-> loc.ran,
          lookups |-> <<>>]
    ELSE LET net == PerformAdditionalLookups(loc.features, w, t, resp)
         IN  [raised |-> "none", features |-> net.features,
              ran |-> loc.ran \o <<"network">>, lookups |-> net.lookups]

\* what one call of extract_all_features can do, over every WHOIS and TLS
\* outcome
ExtractOutcomes(f, u, p, d, s, resp) ==
    LET loc == ExtractLocalFeatures(f, u, p, d, s)
    IN  { ExtractAllFeatures(loc, resp, w, t) : w \in WhoisOutcomes, t \in TlsOutcomes }

(***************************************************************************)
(* get_feature_vector.                                                     *)
(***************************************************************************)
\* feature_order with 'favicon' and 'port' exchanged
feature_order_swapped ==
    << "having_ip_address", "url_length", "shortining_service", "having_at_symbol",
       "double_slash_redirecting", "prefix_suffix", "having_sub_domain", "sslfinal_state",
       "domain_registration_length", "port", "favicon", "https_token", "request_url",
       "url_of_anchor", "links_in_tags", "sfh", "submitting_to_email", "abnormal_url",
       "redirect", "on_mouseover", "rightclick", "popupwindow", "iframe", "age_of_domain",
       "dnsrecord", "web_traffic", "page_rank", "google_index", "links_pointing_to_page",
       "statistical_report" >>

\* the local list of lines 203-211
feature_order ==
    << "having_ip_address", "url_length", "shortining_service", "having_at_symbol",
       "double_slash_redirecting", "prefix_suffix", "having_sub_domain", "sslfinal_state",
       "domain_registration_length", "favicon", "port", "https_token", "request_url",
       "url_of_anchor", "links_in_tags", "sfh", "submitting_to_email", "abnormal_url",
       "redirect", "on_mouseover", "rightclick", "popupwindow", "iframe", "age_of_domain",
       "dnsrecord", "web_traffic", "page_rank", "google_index", "links_pointing_to_page",
       "statistical_report" >>

\* get_feature_vector defaulting to -1, the "computed, negative" code
GetFeatureVectorMinusOne(f) == [i \in 1..Len(feature_order) |-> Get(f, feature_order[i], -1)]

\* line 213
GetFeatureVector(f) == [i \in 1..Len(feature_order) |-> Get(f, feature_order[i], 0)]

\* config.FEATURE_NAMES: the canonical order
FEATURE_NAMES ==
    << "having_ip_address", "url_length", "shortining_service", "having_at_symbol",
       "double_slash_redirecting", "prefix_suffix", "having_sub_domain", "sslfinal_state",
       "domain_registration_length", "favicon", "port", "https_token", "request_url",
       "url_of_anchor", "links_in_tags", "sfh", "submitting_to_email", "abnormal_url",
       "redirect", "on_mouseover", "rightclick", "popupwindow", "iframe", "age_of_domain",
       "dnsrecord", "web_traffic", "page_rank", "google_index", "links_pointing_to_page",
       "statistical_report" >>

(***************************************************************************)
(* fetch_website.                                                          *)
(***************************************************************************)
\* lines 41-45
SchemesToTry(p) ==
    IF p.scheme = HttpScheme THEN <<HttpScheme, HttpsScheme>>
    ELSE IF p.scheme = HttpsScheme THEN <<HttpsScheme, HttpScheme>>
    ELSE <<p.scheme>>

\* lines 52-54
BuildUrl(scheme, p) ==
    scheme \o <<":", "/", "/">> \o p.netloc \o p.path
        \o (IF p.query # <<>> THEN <<"?">> \o p.query ELSE <<>>)

\* line 56
VerifySsl(attempt) == attempt = 0

\* outcomes of the preliminary session.head: a response, a response with an
\* error status, an exception
HeadOutcomes == {"ok", "error_status", "raises"}

\* exceptions of session.get and raise_for_status
TlsProxyErrors == {"SSLError", "ProxyError"}
OtherRequestExceptions == {"Timeout", "ConnectionError"}
RequestExceptions == TlsProxyErrors \cup OtherRequestExceptions \cup {"HTTPError"}

\* len(response.history) of a response
Histories == {0, 1}

\* lines 94-97: "continue" or "reraise"
SslHandler(attempt, max_retries, verify_ssl) ==
    IF attempt < max_retries /\ verify_ssl THEN "continue" ELSE "reraise"

\* OuterHandler without the "except Exception" clause of lines 104-106
OuterHandlerRequestsOnly(exc) ==
    IF exc \in RequestExceptions THEN "continue" ELSE "propagate"

\* lines 99-106: the handlers around one attempt
OuterHandler(exc) ==
    IF exc \in RequestExceptions THEN "continue" ELSE "continue"

\* what an exception of one attempt leads to: "continue" or "propagate"
Disposition(exc, attempt, max_retries, verify_ssl) ==
    IF exc \in TlsProxyErrors /\ SslHandler(attempt, max_retries, verify_ssl) = "continue"
    THEN "continue"
    ELSE OuterHandler(exc)

\* Advance with one attempt too many per scheme: range(max_retries + 2)
AdvanceOneMore(fr) ==
    IF fr.attempt + 1 < fr.max_retries + 2
    THEN [fr EXCEPT !.attempt = @ + 1]
    ELSE [fr EXCEPT !.si = @ + 1, !.attempt = 0, !.first = "none"]

\* the loop headers of lines 49-50: the next (scheme index, attempt)
Advance(fr) ==
    IF fr.attempt + 1 < fr.max_retries + 1
    THEN [fr EXCEPT !.attempt = @ + 1]
    ELSE [fr EXCEPT !.si = @ + 1, !.attempt = 0, !.first = "none"]

\* the frame of a fetch_website call: its parameter max_retries, the loop
\* variables (si indexes schemes_to_try, attempt), the number of the call,
\* and for the record: first, the exception that ended attempt 0 of the
\* current scheme, and head, the outcome of the latest HEAD
NoFrame == [max_retries |-> 0, si |-> 1, attempt |-> 0, call |-> 0,
            first |-> "none", head |-> "none"]

\* the frame left behind when fetch_website returns: its locals are gone
Returned(fr) == [NoFrame EXCEPT !.max_retries = fr.max_retries, !.call = fr.call]

\* the two requests of one attempt (lines 63-69, 75-81), to the url built
\* for scheme index si
Requests(fr) ==
    << [method |-> "HEAD", si |-> fr.si, attempt |-> fr.attempt,
        verify |-> VerifySsl(fr.attempt), ok |-> FALSE],
       [method |-> "GET", si |-> fr.si, attempt |-> fr.attempt,
        verify |-> VerifySsl(fr.attempt), ok |-> FALSE] >>

\* AfterSuccess without the return of line 92: the loop goes on
AfterSuccessNoReturn(fr) == [pc |-> "fetching", fetched |-> "none", fetch |-> Advance(fr)]

\* line 92, return True: where the call and its frame are after a success
AfterSuccess(fr) == [pc |-> "idle", fetched |-> "true", fetch |-> Returned(fr)]

Running == pc = "fetching" /\ fetch.si <= Len(SchemesToTry(parsed_url))

\* fetch_website is entered with max_retries = r
CallFetch(r) ==
    /\ pc' = "fetching"
    /\ fetch' = [NoFrame EXCEPT !.max_retries = r, !.call = fetch.call + 1]
    /\ reqs' = <<>>
    /\ fetched' = "none"

\* HeadHandler letting the exception of session.head leave its try block
HeadHandlerPropagates(h) == IF h = "raises" THEN "raise" ELSE "proceed"

\* lines 62-73: the try block around session.head catches every Exception
\* and logs a warning; whatever the outcome the attempt proceeds to the GET
HeadHandler(h) == IF h = "raises" THEN "proceed" ELSE "proceed"

\* outcomes of session.get followed by raise_for_status (lines 75-86): a
\* response without error status, a response with an error status, an
\* exception e of session.get
OkOutcomes ==
    {[kind |-> "ok", exc |-> "none", text |-> d, history |-> n] :
        d \in Docs, n \in Histories}

ErrorStatusOutcomes ==
    {[kind |-> "error_status", exc |-> "HTTPError", text |-> None, history |-> n] :
        n \in Histories}

RaiseOutcomes(E) ==
    {[kind |-> "raises", exc |-> e, text |-> None, history |-> 0] : e \in E}

GetOutcomes ==
    OkOutcomes \cup ErrorStatusOutcomes
        \cup RaiseOutcomes(TlsProxyErrors \cup OtherRequestExceptions \cup {"Exception"})

\* lines 50-106, one attempt of the call with frame fr, where session.head
\* has outcome h and session.get has outcome g: the values of the fields
\* and of the call after it
Attempt(fr, h, g) ==
    LET r == Requests(fr)
        headRaised == HeadHandler(h) = "raise"
        exc == IF headRaised THEN "ConnectionError" ELSE g.exc
        resp == IF ~headRaised /\ g.kind # "raises"
                THEN [tag |-> "resp", call |-> fr.call, si |-> fr.si,
                      attempt |-> fr.attempt,
                      status |-> IF g.kind = "ok" THEN "ok" ELSE "error",
                      history |-> g.history, text |-> g.text]
                ELSE response
        fr1 == [fr EXCEPT !.head = h,
                          !.first = IF fr.attempt = 0 THEN exc ELSE @]
        cont == Disposition(exc, fr.attempt, fr.max_retries,
                            VerifySsl(fr.attempt)) = "continue"
    IN  IF exc = "none"
        THEN [reqs |-> reqs \o <<r[1], [r[2] EXCEPT !.ok = TRUE]>>,
              response |-> resp,
              url |-> BuildUrl(SchemesToTry(parsed_url)[fr.si], parsed_url),
              html_content |-> resp.text,
              soup |-> ParseHtml(resp.text),
              fetch |-> AfterSuccess(fr).fetch,
              fetched |-> AfterSuccess(fr).fetched,
              pc |-> AfterSuccess(fr).pc]
        ELSE [reqs |-> reqs \o (IF headRaised THEN <<r[1]>> ELSE r),
              response |-> resp,
              url |-> url,
              html_content |-> html_content,
              soup |-> soup,
              fetch |-> IF cont THEN Advance(fr1) ELSE Returned(fr1),
              fetched |-> IF cont THEN fetched ELSE "raised",
              pc |-> IF cont THEN pc ELSE "idle"]

\* the running call makes its next attempt, session.get having one of the
\* outcomes G
AttemptStep(G) ==
    /\ Running
    /\ \E a \in {Attempt(fetch, h, g) : h \in HeadOutcomes, g \in G} :
        /\ reqs' = a.reqs
        /\ response' = a.response
        /\ url' = a.url
        /\ html_content' = a.html_content
        /\ soup' = a.soup
        /\ fetch' = a.fetch
        /\ fetched' = a.fetched
        /\ pc' = a.pc
    /\ UNCHANGED <<caller, raw, parsed_url, domain, features, lookups, ran,
                   raised, vector, vecOf, calls, result>>

\* lines 75-92: GET returns, no error status
GetSucceeds == AttemptStep(OkOutcomes)

\* lines 75-86: GET returns a response with an error status; raise_for_status
\* raises HTTPError
GetHttpError == AttemptStep(ErrorStatusOutcomes)

\* lines 75-81, 94-97: session.get raises SSLError or ProxyError
GetTlsProxyError == AttemptStep(RaiseOutcomes(TlsProxyErrors))

\* lines 75-81, 99-102: session.get raises another RequestException
GetRequestException == AttemptStep(RaiseOutcomes(OtherRequestExceptions))

\* lines 75-81, 104-106: session.get raises an exception that is no
\* RequestException
GetUnexpectedError == AttemptStep(RaiseOutcomes({"Exception"}))

\* lines 108-109: both loops are exhausted
FetchExhausted ==
    /\ pc = "fetching"
    /\ fetch.si > Len(SchemesToTry(parsed_url))
    /\ fetched' = "false"
    /\ pc' = "idle"
    /\ fetch' = Returned(fetch)
    /\ UNCHANGED <<caller, raw, url, parsed_url, domain, html_content, soup,
                   response, features, reqs, lookups, ran, raised,
                   vector, vecOf, calls, result>>

(***************************************************************************)
(* The callers.                                                            *)
(***************************************************************************)
\* the raw strings the pipeline is run on: 'a.b', 'https://a.b/p?q', 'a.b:x'
PipelineInputs ==
    { <<"a", ".", "b">>,
      <<"h", "t", "t", "p", "s", ":", "/", "/", "a", ".", "b", "/", "p", "?", "q">>,
      <<"a", ".", "b", ":", "x">> }

\* the raw strings the constructor and the Lexical Deriver are run on:
\*   'a.b', 'http://a.b', 'https://a.b/p?q', '1.2.3.4', 'https://u@t.co//r'
\*   'a-b.c.d:80/p#f', 'a.b:x', 'http://a.b:0', 'ftp://a.b', 'https://a.b:70000'
\*   'https:/a.b', 'u:p@a.b.c', 'http:', ''
UrlInputs ==
    { <<"a", ".", "b">>,
      <<"h", "t", "t", "p", ":", "/", "/", "a", ".", "b">>,
      <<"h", "t", "t", "p", "s", ":", "/", "/", "a", ".", "b", "/", "p", "?", "q">>,
      <<"1", ".", "2", ".", "3", ".", "4">>,
      <<"h", "t", "t", "p", "s", ":", "/", "/", "u", "@", "t", ".", "c", "o", "/", "/", "r">>,
      <<"a", "-", "b", ".", "c", ".", "d", ":", "8", "0", "/", "p", "#", "f">>,
      <<"a", ".", "b", ":", "x">>,
      <<"h", "t", "t", "p", ":", "/", "/", "a", ".", "b", ":", "0">>,
      <<"f", "t", "p", ":", "/", "/", "a", ".", "b">>,
      <<"h", "t", "t", "p", "s", ":", "/", "/", "a", ".", "b", ":", "7", "0", "0", "0", "0">>,
      <<"h", "t", "t", "p", "s", ":", "/", "a", ".", "b">>,
      <<"u", ":", "p", "@", "a", ".", "b", ".", "c">>,
      <<"h", "t", "t", "p", ":">>,
      <<>> }

\* FeatureExtractor.__init__
Constructed ==
    /\ url = NormalizeUrl(raw)
    /\ parsed_url = UrlParse(url)
    /\ domain = parsed_url.netloc
    /\ html_content = None
    /\ soup = None
    /\ response = None
    /\ features = EmptyDict
    /\ pc = "idle"
    /\ fetch = NoFrame
    /\ reqs = <<>>
    /\ fetched = "none"
    /\ lookups = <<>>
    /\ ran = <<>>
    /\ raised = "none"
    /\ vector = <<>>
    /\ vecOf = EmptyDict
    /\ calls = 0
    /\ result = "none"

\* an extractor constructed by analyze or by a client, before any call
Init ==
    /\ caller \in {"analyze", "client"}
    /\ raw \in PipelineInputs
    /\ Constructed

\* an extractor constructed by a client on any of the url inputs
InitUrl ==
    /\ caller = "client"
    /\ raw \in UrlInputs
    /\ Constructed

\* app.py line 211: extractor.fetch_website()
AnalyzeCallFetch ==
    /\ caller = "analyze" /\ pc = "idle" /\ result = "none" /\ fetched = "none"
    /\ CallFetch(DefaultMaxRetries)
    /\ UNCHANGED <<caller, raw, url, parsed_url, domain, html_content, soup,
                   response, features, lookups, ran, raised, vector, vecOf,
                   calls, result>>

\* app.py lines 211-223: fetch_website returned False (400) or raised (500)
AnalyzeFetchFailed ==
    /\ caller = "analyze" /\ pc = "idle" /\ result = "none"
    /\ fetched \in {"false", "raised"}
    /\ result' = IF fetched = "false" THEN "err400" ELSE "err500"
    /\ UNCHANGED <<caller, raw, url, parsed_url, domain, html_content, soup,
                   response, features, pc, fetch, reqs, fetched, lookups, ran,
                   raised, vector, vecOf, calls>>

\* app.py lines 227-247: extract_all_features, get_feature_vector, reply
AnalyzeExtract ==
    /\ caller = "analyze" /\ pc = "idle" /\ result = "none" /\ fetched = "true"
    /\ \E e \in ExtractOutcomes(features, url, parsed_url, domain, soup, response) :
            /\ features' = e.features
            /\ ran' = e.ran
            /\ lookups' = e.lookups
            /\ raised' = e.raised
            /\ IF e.raised = "none"
               THEN /\ vector' = GetFeatureVector(features')
                    /\ vecOf' = features'
                    /\ result' = "ok200"
               ELSE /\ vector' = vector
                    /\ vecOf' = vecOf
                    /\ result' = "err500"
    /\ UNCHANGED <<caller, raw, url, parsed_url, domain, html_content, soup,
                   response, pc, fetch, reqs, fetched, calls>>

\* a client calls fetch_website(max_retries=r), once per extractor as
\* analyze does
ClientCallFetch ==
    /\ caller = "client" /\ pc = "idle" /\ calls < MaxCalls
    /\ fetch.call = 0
    /\ \E r \in 0..MaxClientRetries : CallFetch(r)
    /\ calls' = calls + 1
    /\ UNCHANGED <<caller, raw, url, parsed_url, domain, html_content, soup,
                   response, features, lookups, ran, raised, vector, vecOf,
                   result>>

\* a client calls extract_all_features()
ClientExtractAllFeatures ==
    /\ caller = "client" /\ pc = "idle" /\ calls < MaxCalls
    /\ \E e \in ExtractOutcomes(features, url, parsed_url, domain, soup, response) :
            /\ features' = e.features
            /\ ran' = e.ran
            /\ lookups' = e.lookups
            /\ raised' = e.raised
    /\ calls' = calls + 1
    /\ UNCHANGED <<caller, raw, url, parsed_url, domain, html_content, soup,
                   response, pc, fetch, reqs, fetched, vector, vecOf, result>>

\* a client calls get_feature_vector()
ClientGetFeatureVector ==
    /\ caller = "client" /\ pc = "idle" /\ calls < MaxCalls
    /\ vector' = GetFeatureVector(features)
    /\ vecOf' = features
    /\ calls' = calls + 1
    /\ UNCHANGED <<caller, raw, url, parsed_url, domain, html_content, soup,
                   response, features, pc, fetch, reqs, fetched, lookups, ran,
                   raised, result>>

Next ==
    \/ AnalyzeCallFetch
    \/ AnalyzeFetchFailed
    \/ AnalyzeExtract
    \/ ClientCallFetch
    \/ ClientExtractAllFeatures
    \/ ClientGetFeatureVector
    \/ GetSucceeds
    \/ GetHttpError
    \/ GetTlsProxyError
    \/ GetRequestException
    \/ GetUnexpectedError
    \/ FetchExhausted

Spec == Init /\ [][Next]_vars

\* one step of the loops of fetch_website: every request is bounded by
\* timeout=10, so a running call always takes its next step
FetchStep ==
    \/ GetSucceeds
    \/ GetHttpError
    \/ GetTlsProxyError
    \/ GetRequestException
    \/ GetUnexpectedError
    \/ FetchExhausted

FairSpec == Spec /\ WF_vars(FetchStep)

\* the constructor and the derivers alone, on every url input
NextUrl ==
    \/ ClientExtractAllFeatures
    \/ ClientGetFeatureVector

SpecUrl == InitUrl /\ [][NextUrl]_vars

(***************************************************************************)
(* Properties.                                                             *)
(***************************************************************************)
\* the GET attempts of the fetch_website call, in order
Gets == SelectSeq(reqs, LAMBDA r : r.method = "GET")

\* the call has returned or raised
FetchOver == fetch.call > 0 /\ pc = "idle"

\* C1: when every GET attempt of fetch_website has failed, whatever the
\* exception of each, the call returns False, never raises, and
\* html_content and soup are still None.
C1_AllFailedReturnsFalse ==
    /\ fetched # "raised"
    /\ (FetchOver /\ \A i \in 1..Len(reqs) : ~reqs[i].ok)
          => /\ fetched = "false"
             /\ html_content = None
             /\ soup = None

\* a default run of six failed attempts, one of them an HTTP error status
C1_Witness ==
    /\ fetched = "false"
    /\ fetch.max_retries = DefaultMaxRetries
    /\ Len(Gets) = 2 * (DefaultMaxRetries + 1)
    /\ response # None
    /\ html_content = None /\ soup = None

\* C2: the first GET that succeeds is the last request of the call: the
\* call has returned True, and url, response and html_content are those of
\* that attempt.
C2_SuccessIsLast ==
    /\ \A i \in 1..Len(reqs) : reqs[i].ok => i = Len(reqs) /\ reqs[i].method = "GET"
    /\ (\E i \in 1..Len(reqs) : reqs[i].ok) =>
          LET g == reqs[Len(reqs)]
              scheme == SchemesToTry(parsed_url)[g.si]
          IN  /\ FetchOver /\ fetched = "true"
              /\ url = BuildUrl(scheme, parsed_url)
              /\ StartsWith(url, scheme \o <<":", "/", "/">> \o parsed_url.netloc)
              /\ response # None
              /\ response.call = fetch.call
              /\ response.si = g.si /\ response.attempt = g.attempt
              /\ response.status = "ok"
              /\ html_content = response.text
              /\ html_content \in Docs
    /\ fetched = "true" => \E i \in 1..Len(reqs) : reqs[i].ok

\* a success on the fallback scheme after the original scheme was exhausted
C2_Witness ==
    /\ fetched = "true"
    /\ Len(Gets) > DefaultMaxRetries + 1
    /\ reqs[Len(reqs)].ok
    /\ reqs[Len(reqs)].si = 2
    /\ url # NormalizeUrl(raw)

\* the other scheme of {http, https}
OtherScheme(sch) == IF sch = HttpScheme THEN HttpsScheme ELSE HttpScheme

\* the GET attempts are a prefix of: attempts 0..max_retries on the scheme
\* of the normalized url, then attempts 0..max_retries on the other scheme
C3_Prefix ==
    LET n == fetch.max_retries + 1
        own == IF StartsWith(NormalizeUrl(raw), HttpsPrefix) THEN HttpsScheme ELSE HttpScheme
    IN  /\ Len(Gets) <= 2 * n
        /\ \A k \in 1..Len(Gets) :
              /\ Gets[k].attempt = (k - 1) % n
              /\ Gets[k].si = ((k - 1) \div n) + 1
              /\ SchemesToTry(parsed_url)[Gets[k].si] = IF k <= n THEN own ELSE OtherScheme(own)
        /\ pc = "fetching" => Len(Gets) = (fetch.si - 1) * n + fetch.attempt

\* C3: the GET attempts of a run are a prefix of attempts 0..max_retries on
\* the url's own scheme followed by attempts 0..max_retries on the other
\* scheme, so at most 2*(max_retries+1) of them, and the run terminates.
C3_OrderBoundTermination ==
    /\ []C3_Prefix
    /\ (pc = "fetching") ~> (pc = "idle")

\* a run that made all 2*(max_retries+1) attempts, with max_retries = 2
C3_Witness ==
    /\ FetchOver
    /\ fetch.max_retries = DefaultMaxRetries
    /\ Len(Gets) = 2 * (DefaultMaxRetries + 1)
    /\ Gets[DefaultMaxRetries + 2].si = 2 /\ Gets[DefaultMaxRetries + 2].attempt = 0

\* extract_all_features has been entered
Extracted == ran # <<>>

C5_WhoisRaiseForcesSsl ==
    (lookups # <<>> /\ lookups[1] = "whois:raised") =>
        /\ \A i \in 1..Len(lookups) : lookups[i] # "tls"
        /\ "sslfinal_state" \in DOMAIN features /\ features["sslfinal_state"] = -1
        /\ features["age_of_domain"] = 0
        /\ features["domain_registration_length"] = 0
        /\ features["dnsrecord"] = 0

\* the lookups of a run in which WHOIS raised
C5_Witness ==
    /\ lookups = <<"whois:raised", "redirect">>
    /\ features["sslfinal_state"] = -1
    /\ features["dnsrecord"] = 0

\* the nine keys of the Structural Feature Deriver
StructuralKeys ==
    {"sfh", "submitting_to_email", "iframe", "popupwindow", "on_mouseover",
     "rightclick", "url_of_anchor", "links_in_tags", "favicon"}

\* C6: while no html content was obtained (soup is None), none of the nine
\* structural keys is in the FeatureSet after extract_all_features, and
\* get_feature_vector holds 0 in each of their slots.
C6_NoStructuralWithoutContent ==
    soup = None =>
        /\ DOMAIN features \cap StructuralKeys = {}
        /\ \A i \in 1..Len(FEATURE_NAMES) :
              FEATURE_NAMES[i] \in StructuralKeys =>
                  /\ GetFeatureVector(features)[i] = 0
                  /\ vector # <<>> => vector[i] = 0

\* fetch failed, extract_all_features completed, the vector was taken
C6_Witness ==
    /\ soup = None /\ fetched = "false"
    /\ ran = <<"lexical", "network">>
    /\ vector # <<>> /\ vecOf = features

\* C7: get_feature_vector returns exactly 30 integers, slot i holding the
\* FeatureSet's value for the i-th canonical name (config.FEATURE_NAMES)
\* when the key is present and 0 otherwise; the empty FeatureSet gives the
\* all-zero vector.
C7_VectorOfFeatureSet ==
    /\ Len(GetFeatureVector(features)) = 30
    /\ vector # <<>> =>
          /\ Len(vector) = 30 /\ Len(FEATURE_NAMES) = 30
          /\ \A i \in 1..30 :
                /\ vector[i] \in Int
                /\ FEATURE_NAMES[i] \in DOMAIN vecOf => vector[i] = vecOf[FEATURE_NAMES[i]]
                /\ FEATURE_NAMES[i] \notin DOMAIN vecOf => vector[i] = 0
          /\ vecOf = EmptyDict => \A i \in 1..30 : vector[i] = 0

\* a vector taken from a FeatureSet that holds some keys ("port") and lacks
\* others ("favicon"): the missing key's position holds 0
C7_Witness ==
    /\ vector # <<>>
    /\ "port" \in DOMAIN vecOf /\ "favicon" \notin DOMAIN vecOf
    /\ vector[10] = 0 /\ vector[11] # 0

\* the nine keys of the Lexical Feature Deriver
LexicalKeys ==
    {"url_length", "having_ip_address", "shortining_service", "having_at_symbol",
     "double_slash_redirecting", "prefix_suffix", "having_sub_domain", "port",
     "https_token"}

\* C8: whatever the authority of the parsed url, _extract_url_features
\* completes without raising and sets all nine lexical keys to integers.
C8_LexicalNeverRaises ==
    Extracted =>
        /\ raised = "none"
        /\ LexicalKeys \subseteq DOMAIN features
        /\ \A k \in LexicalKeys : features[k] \in Int

\* C9: normalize_url returns its input unchanged when it starts with
\* 'http://' or 'https://' and 'http://' + input otherwise; the result
\* begins with 'http://' or 'https://' and normalizing it again changes
\* nothing.
C9_Normalize ==
    LET n == NormalizeUrl(raw)
        http == Len(raw) >= 7 /\ SubSeq(raw, 1, 7) = <<"h", "t", "t", "p", ":", "/", "/">>
        https == Len(raw) >= 8
                 /\ SubSeq(raw, 1, 8) = <<"h", "t", "t", "p", "s", ":", "/", "/">>
    IN  /\ url = n
        /\ (http \/ https) => n = raw
        /\ ~(http \/ https) => n = <<"h", "t", "t", "p", ":", "/", "/">> \o raw
        /\ \/ SubSeq(n, 1, 7) = <<"h", "t", "t", "p", ":", "/", "/">>
           \/ SubSeq(n, 1, 8) = <<"h", "t", "t", "p", "s", ":", "/", "/">>
        /\ NormalizeUrl(n) = n

\* an https url left unchanged by the constructor, its lexical features derived
C9_Witness ==
    /\ StartsWith(raw, HttpsPrefix)
    /\ url = raw
    /\ Extracted

\* C10: within a scheme an attempt without certificate verification is
\* made only when the verifying attempt 0 of that scheme failed with a
\* TLS/proxy error; after another class of failure the remaining attempts
\* of the scheme are not made with relaxed verification.
C10_RelaxedOnlyAfterTlsError ==
    /\ \A i \in 1..Len(reqs) : reqs[i].attempt = 0 => reqs[i].verify
    /\ pc = "fetching" =>
          \A i \in 1..Len(reqs) :
              (reqs[i].method = "GET" /\ reqs[i].si = fetch.si /\ ~reqs[i].verify)
                  => fetch.first \in TlsProxyErrors

\* the result of an attempt without the HEAD outcome noted in the frame
EraseHead(a) == [a EXCEPT !.fetch.head = "none"]

\* C11: the outcome of the preliminary HEAD never influences fetch_website.
\* In every attempt the GET is issued after the HEAD whether the HEAD
\* succeeded, returned an error status or raised; and from frames that
\* differ at most in the HEAD outcomes seen so far, the same GET outcome
\* gives the same requests, return value, url, response and content
\* whatever the HEAD outcome of the attempt, so two runs with the same GET
\* outcomes and different HEAD outcomes stay equal step by step.
C11_HeadNeverInfluences ==
    /\ Len(reqs) % 2 = 0
    /\ \A i \in 1..Len(reqs) :
          i % 2 = 1 => /\ reqs[i].method = "HEAD"
                       /\ reqs[i + 1].method = "GET"
                       /\ reqs[i + 1].si = reqs[i].si
                       /\ reqs[i + 1].attempt = reqs[i].attempt
    /\ Running =>
          \A g \in GetOutcomes :
              LET ref == Attempt(fetch, "ok", g)
                  get == ref.reqs[Len(reqs) + 2]
              IN  /\ Len(ref.reqs) = Len(reqs) + 2
                  /\ get.method = "GET"
                  /\ get.si = fetch.si /\ get.attempt = fetch.attempt
                  /\ get.ok <=> g.kind = "ok"
                  /\ \A h0 \in HeadOutcomes \cup {"none"}, h \in HeadOutcomes :
                        EraseHead(Attempt([fetch EXCEPT !.head = h0], h, g))
                            = EraseHead(ref)

\* the HEAD of attempt 0 raised and its GET timed out: the GET was issued
\* all the same and the call goes on with attempt 1 of the same scheme
C11_Witness ==
    /\ pc = "fetching"
    /\ fetch.head = "raises" /\ fetch.first = "Timeout"
    /\ fetch.si = 1 /\ fetch.attempt = 1
    /\ Len(reqs) = 2 /\ reqs[2].method = "GET"

\* extract_all_features completed after a successful fetch: url_length was
\* measured on the url the Fetcher recorded
ExtractedAfterFetch ==
    /\ fetched = "true" /\ Extracted /\ raised = "none"
    /\ features["url_length"] = Len(url)

C13_SslFinalStateSet ==
    /\ (Extracted /\ raised = "none") =>
          /\ features["sslfinal_state"] \in {1, -1}
          /\ features["sslfinal_state"] = 1 =>
                /\ lookups = <<"whois:returned", "tls", "redirect">>
                /\ features["dnsrecord"] \in {-1, 1}
          /\ lookups # <<"whois:returned", "tls", "redirect">> =>
                features["sslfinal_state"] = -1
    /\ \A w \in WhoisOutcomes, t \in TlsOutcomes :
          LET f == PerformAdditionalLookups(features, w, t, response).features
              completed == /\ w.kind = "record"
                           /\ ~CreationDateBlock(features, w.creation_date).raised
                           /\ t = "ok"
          IN  /\ f["sslfinal_state"] = IF completed THEN 1 ELSE -1
              /\ f["sslfinal_state"] = 1 => f["dnsrecord"] \in {-1, 1}

\* a completed extraction in which WHOIS returned a record without name
\* servers and the handshake succeeded
C13_Witness ==
    /\ Extracted /\ raised = "none"
    /\ lookups = <<"whois:returned", "tls", "redirect">>
    /\ features["sslfinal_state"] = 1
    /\ features["dnsrecord"] = -1

====
